---- MODULE Spec2Model ----
(***************************************************************************)
(* The news pipeline of airflow_dags_fixed/fetch_news.py: credential       *)
(* lookup, single-page fetch, per-article normalization, parquet write,    *)
(* GCS upload and local cleanup, driven by fetch_news_data.                *)
(*                                                                         *)
(* Python str values that the code slices, strips or searches are          *)
(* sequences of one-character strings; names that are only concatenated    *)
(* (query, filename, blob name, URI) are TLA+ strings.  A JSON / Python    *)
(* value is a record [t, v]: t is its type tag, v its payload.             *)
(***************************************************************************)
EXTENDS Integers, Sequences, FiniteSets, TLC

\* ------------------------------------------------------------------ bounds
MaxRuns == 2       \* runs of fetch_news_data in one behaviour
MaxTicks == 2      \* seconds the local clock advances in one behaviour
MaxArticles == 2   \* length of the enumerated API pages
MaxRequests == 3   \* cap on HTTP requests of one run (reached only by a paginating variant)

\* ------------------------------------------------------- program constants
PageSize == 100            \* base_params['pageSize']
ContentLimit == 200        \* len(cleaned_content) > 200
MinPeriodIndex == 100      \* last_period_index > 100
HardTrim == 199            \* cleaned_content[:199]
BucketName == "snowflake-projects-test-gds"
BlobPrefix == "news_data_analysis/"

\* ------------------------------------------------------------ Python values
Absent == [t |-> "absent", v |-> <<>>]     \* key not in the dict
Null == [t |-> "null", v |-> <<>>]         \* JSON null / None
Str(s) == [t |-> "str", v |-> s]
Num(d) == [t |-> "num", v |-> <<d>>]          \* d is the decimal digit, as a character
Obj(name) == [t |-> "obj", v |-> name]     \* {"id": ..., "name": name}; name is a value, Absent when the key is missing

\* dict.get(key, default): the default only when the key is missing
Get(field, default) == IF field.t = "absent" THEN default ELSE field

\* Python truthiness of a value
Truthy(val) ==
    CASE val.t = "str" -> val.v # <<>>
      [] val.t = "num" -> val.v # <<"0">>
      [] val.t = "obj" -> TRUE
      [] OTHER -> FALSE

IsSpace(c) == c \in {" ", "\n", "\t"}

RECURSIVE LStrip(_)
LStrip(s) == IF s # <<>> /\ IsSpace(Head(s)) THEN LStrip(Tail(s)) ELSE s

RECURSIVE RStrip(_)
RStrip(s) ==
    IF s # <<>> /\ IsSpace(s[Len(s)]) THEN RStrip(SubSeq(s, 1, Len(s) - 1)) ELSE s

\* str.strip()
Strip(s) == RStrip(LStrip(s))

\* only a str has .strip(); anything else raises AttributeError
HasStrip(val) == val.t = "str"

\* s.rfind('.'): 0-based index of the last '.', -1 when there is none
RFind(s) ==
    LET hits == {i \in 1..Len(s) : s[i] = "."}
    IN IF hits = {} THEN -1 ELSE (CHOOSE i \in hits : \A j \in hits : j <= i) - 1

\* s[:n] for n >= 0
Prefix(s, n) == SubSeq(s, 1, IF n < Len(s) THEN n ELSE Len(s))

\* ------------------------------------------------- clean_article_content
\* content is a value that is Null or a str (the caller's type error is
\* decided in ContentRaises); the result is a Python str.
clean_article_content(content) ==
    IF ~Truthy(content) THEN <<>>
    ELSE LET cleaned_content == Strip(content.v)
             last_period_index == RFind(cleaned_content)
         IN IF Len(cleaned_content) > ContentLimit
            THEN IF last_period_index > MinPeriodIndex
                 THEN Prefix(cleaned_content, last_period_index + 1)
                 ELSE Prefix(cleaned_content, HardTrim)
            ELSE cleaned_content

\* a truthy content that is no str raises at content.strip()
ContentRaises(content) == Truthy(content) /\ ~HasStrip(content)

\* ------------------------------------------------------------ local clock
\* datetime.datetime.now(): the naive local time, kept at second resolution.
\* The model's clock starts two seconds before midnight of the DAG's
\* start_date (3 October 2025) so that both the seconds and the date roll.
SecondsPerDay == 24 * 60 * 60
StartClock == [day |-> 3, sec |-> SecondsPerDay - 2]

Pad2(n) == IF n < 10 THEN "0" \o ToString(n) ELSE ToString(n)

\* variant: the format stops at the minute ('%Y%m%d_%H%M')
StrFTimeMinutes(dt) ==
    "202510" \o Pad2(dt.day) \o "_" \o Pad2(dt.sec \div 3600)
        \o Pad2((dt.sec \div 60) % 60)

\* dt.strftime('%Y%m%d_%H%M%S')
StrFTime(dt) ==
    "202510" \o Pad2(dt.day) \o "_" \o Pad2(dt.sec \div 3600)
        \o Pad2((dt.sec \div 60) % 60) \o Pad2(dt.sec % 60)

\* ---------------------------------------------- process_articles_to_dataframe
\* One pass of the loop body (lines 242-273) on one raw article: the article
\* raises when it is no dict (.get), when its title is present and no str
\* (.strip), when its source is truthy and no dict (.get), when its author is
\* truthy and no str (.strip), or when its content is truthy and no str.
ArticleRaises(article) ==
    \/ article.kind # "dict"
    \/ ~HasStrip(Get(article.title, Str(<<>>)))
    \/ (Truthy(article.source) /\ article.source.t # "obj")
    \/ (Truthy(article.author) /\ ~HasStrip(article.author))
    \/ ContentRaises(Get(article.content, Str(<<>>)))

\* the row built at lines 256-265 for an article that does not raise, without
\* its processed_at column (line 264: the wall clock when the row is built)
NewRow(article) ==
    [newsTitle |-> Str(Strip(Get(article.title, Str(<<>>)).v)),
     timestamp |-> Get(article.publishedAt, Str(<<>>)),
     url_source |-> Get(article.url, Str(<<>>)),
     content |-> Str(clean_article_content(Get(article.content, Str(<<>>)))),
     source |-> IF Truthy(article.source)
                THEN Get(article.source.v, Str(<<>>)) ELSE Str(<<>>),
     author |-> IF Truthy(article.author)
                THEN Str(Strip(article.author.v)) ELSE Str(<<>>),
     urlToImage |-> Get(article.urlToImage, Str(<<>>))]

\* variant: the except clause leaves the loop (`break`)
OnArticleErrorBreak(processed, n_articles) == n_articles

\* The for loop of lines 241-273 runs one article per step; processed counts
\* the articles the loop has gone through.  After an article that raised, the
\* except clause (lines 271-273) logs and `continue`s with the next one.
OnArticleError(processed, n_articles) == processed + 1

\* variant: the check of line 346 is missing
DfEmptyNever(df) == FALSE

\* df.empty
DfEmpty(df) == Len(df) = 0

\* ------------------------------------------------------------ raw articles
Chars(n, periods) == [i \in 1..n |-> IF i \in periods THEN "." ELSE "x"]

Plain ==
    [kind |-> "dict",
     title |-> Str(<<" ", "H", "i", " ">>),
     publishedAt |-> Str(<<"t", "0">>),
     url |-> Str(<<"u">>),
     source |-> Obj(Str(<<"B", "B", "C">>)),
     author |-> Str(<<" ", "A", "l", "\n">>),
     urlToImage |-> Null,
     content |-> Str(<<" ", "a", ".", "b", " ">>)]

\* every raw content the model feeds to the normalizer
Contents ==
    {Absent, Null, Str(<<>>), Str(<<" ", " ">>), Num("7"),
     Str(Chars(ContentLimit, {})),
     Str(<<" ">> \o Chars(ContentLimit, {ContentLimit}) \o <<" ">>),
     Str(Chars(ContentLimit + 1, {})),
     Str(Chars(ContentLimit + 1, {ContentLimit + 1})),
     Str(Chars(ContentLimit + 50, {MinPeriodIndex + 1})),
     Str(Chars(ContentLimit + 50, {MinPeriodIndex + 2})),
     Str(Chars(ContentLimit + 50, {MinPeriodIndex + 2, ContentLimit})),
     Str(Chars(ContentLimit + 50, {ContentLimit + 50}))}

\* articles that differ from Plain in one field
ContentArticles == {[Plain EXCEPT !.content = c] : c \in Contents}
TitleArticles == {[Plain EXCEPT !.title = x] : x \in {Absent, Null, Str(<<>>), Num("1")}}
AuthorArticles == {[Plain EXCEPT !.author = x] : x \in {Absent, Null, Num("1")}}
SourceArticles ==
    {[Plain EXCEPT !.source = x] :
        x \in {Absent, Null, Obj(Absent), Obj(Null), Str(<<"B">>)}}
NotADict == [Plain EXCEPT !.kind = "null"]

Articles ==
    {Plain, NotADict} \cup ContentArticles \cup TitleArticles
        \cup AuthorArticles \cup SourceArticles

\* the articles the longer pages are built from: one that normalizes, one with
\* the title key missing, one with a null title, one whose content is long
CoreArticles ==
    {Plain, [Plain EXCEPT !.title = Absent], [Plain EXCEPT !.title = Null],
     [Plain EXCEPT !.content = Str(Chars(ContentLimit + 50, {ContentLimit + 50}))]}

SeqsUpTo(S, n) == UNION {[1..k -> S] : k \in 0..n}
Repeat(x, n) == [i \in 1..n |-> x]

\* the `articles` arrays of the page responses
Pages ==
    SeqsUpTo(CoreArticles, MaxArticles) \cup {<<a>> : a \in Articles}
        \cup {Repeat(Plain, 5), Repeat(Plain, PageSize)}

\* ------------------------------------------------------ get_api_key_from_airflow
\* what Variable.get("NEWS_API_KEY") can do: raise (no such variable, store
\* unreachable) or hand back the stored value
NoLookup == [raises |-> FALSE, value |-> Absent]
Lookups ==
    {[raises |-> TRUE, value |-> Null]}
        \cup {[raises |-> FALSE, value |-> x] :
                x \in {Null, Str(<<>>), Str(<<" ", "\t">>), Str(<<"k">>),
                       Str(<<" ", "k", "\n">>)}}

\* variant: the value is not stripped before the test
KeyBlankNoStrip(api_key) == ~Truthy(api_key)

\* line 66: not api_key or api_key.strip() == ""
KeyBlank(api_key) == ~Truthy(api_key) \/ Strip(api_key.v) = <<>>

\* lines 62-74: every failure leaves as the ValueError of line 74
get_api_key_from_airflow(l) ==
    IF l.raises \/ KeyBlank(l.value)
    THEN [raises |-> TRUE, key |-> <<>>]
    ELSE [raises |-> FALSE, key |-> Strip(l.value.v)]

\* ----------------------------------------------------------- fetch_news_from_api
IntVal(n) == [t |-> "int", n |-> n]
AbsentInt == [t |-> "absent", n |-> 0]
List(p) == [t |-> "list", v |-> p]
NoList == [t |-> "absent", v |-> <<>>]
NullList == [t |-> "null", v |-> <<>>]

NoData == [kind |-> "none", status |-> "", totalResults |-> AbsentInt, articles |-> NoList]

\* what requests.get / raise_for_status / response.json() can produce
Responses ==
    {[NoData EXCEPT !.kind = k] : k \in {"network_error", "http_error", "bad_json"}}
        \cup {[NoData EXCEPT !.kind = "json", !.status = "error"]}
        \cup {[kind |-> "json", status |-> "ok", totalResults |-> tr, articles |-> ar] :
                tr \in {AbsentInt, IntVal(5), IntVal(PageSize + 150)},
                ar \in {NoList, NullList} \cup {List(p) : p \in Pages}}

\* lines 158-165: the request, raise_for_status, json() or the status check raises
ResponseRaises(resp) == resp.kind # "json" \/ resp.status # "ok"

\* variant: line 193 is gone and line 195 (page += 1) is live
HaltsWhenPaginating(page_articles, n_all, total) ==
    \/ page_articles = <<>>
    \/ n_all >= total
    \/ Len(page_articles) < PageSize

\* the break conditions of lines 171-193, checked after a page: no articles,
\* all available fetched, a short page, and the unconditional break of line 193
HaltsAfterPage(page_articles, n_all, total) ==
    \/ page_articles = <<>>
    \/ n_all >= total
    \/ Len(page_articles) < PageSize
    \/ TRUE

\* lines 203-207
FinalData(all) == [status |-> "ok", totalResults |-> Len(all), articles |-> all]
NoFinalData == [status |-> "", totalResults |-> 0, articles |-> <<>>]

\* ---------------------------------------------------------------- fetch_news_data
Queries == {"technology", "apple"}

\* line 352
Filename(query, dt) == "news_data_" \o query \o "_" \o StrFTime(dt) \o ".parquet"
\* line 359
DestinationBlobName(fname) == BlobPrefix \o fname
\* variant: the separator between bucket and blob name is missing
GcsPathNoSlash(bucket_name, blob) == "gs://" \o bucket_name \o blob

\* line 368
GcsPath(bucket_name, blob) == "gs://" \o bucket_name \o "/" \o blob

\* variant: the file is not removed
OsRemoveNothing(files, path) == files

\* os.remove(local_file_path), when it does not raise
OsRemove(files, path) == {f \in files : f.name # path}

\* to_parquet(filename), when it does not raise: the file is created or
\* replaced; run is the run whose frame it now holds
ToParquet(files, path, run) ==
    {f \in files : f.name # path} \cup {[name |-> path, run |-> run]}

\* variant: the failed step is tried again
AfterRaiseRetry(step) == step

\* lines 374-376: the except clause logs and re-raises; the run is over
AfterRaise(step) == "raised"

Unset == "<unset>"
None == "<None>"

\* ------------------------------------------------ newsapi_data_processing_dag
\* news_api_airflow_job.py: five tasks, their dependencies, and the scheduler's
\* rules for them (every task keeps the default trigger rule, all_success).
FetchTask == "newsapi_data_to_gcs"
CreateTableTask == "snowflake_create_table"
CopyTask == "snowflake_copy_from_stage"
NewsSummaryTask == "create_or_replace_news_summary_tb"
AuthorActivityTask == "create_or_replace_author_activity_tb"

SqlTasks == {CreateTableTask, CopyTask, NewsSummaryTask, AuthorActivityTask}
Tasks == {FetchTask} \cup SqlTasks

\* default_args['retries'] (line 17).  The four SQL tasks are built without
\* dag= and join the DAG at lines 141 and 144; their retries are the
\* scheduler's default, 0 as well.
Retries == 0

\* lines 141 and 144: the direct upstream tasks of a task
Upstream(task) ==
    CASE task = FetchTask -> {}
      [] task = CreateTableTask -> {FetchTask}
      [] task = CopyTask -> {CreateTableTask}
      [] task = NewsSummaryTask -> {CopyTask}
      [] task = AuthorActivityTask -> {CopyTask}

\* variant: the trigger rule is all_done, a task starts once its upstream
\* tasks are over, whatever their outcome
UpstreamDone(states, task) ==
    \A u \in Upstream(task) : states[u] \in {"success", "failed", "upstream_failed"}

\* trigger rule all_success: every direct upstream task has succeeded
UpstreamReady(states, task) ==
    \A u \in Upstream(task) : states[u] = "success"

\* a direct upstream task has failed, or was itself not run for that reason
UpstreamFailed(states, task) ==
    \E u \in Upstream(task) : states[u] \in {"failed", "upstream_failed"}

\* the state of a task whose try number `tries` has just failed: it is tried
\* again while tries <= retries
AfterFailure(tries) == IF tries <= Retries THEN "up_for_retry" ELSE "failed"

VARIABLES
    task_state,     \* per task of the DAG run: none, running, success, failed,
                    \* up_for_retry, upstream_failed
    try_number      \* per task: how often it was started

dagVars == <<task_state, try_number>>

VARIABLES
    now,            \* the local clock
    ticks,          \* seconds the clock has advanced
    runs,           \* runs of fetch_news_data started so far
    history,        \* per run that computed a filename: run, query, clock, filename
    localFiles,     \* the files on the local disk: name, and the run that wrote it
    bucket,         \* the blobs in the GCS bucket
    pc,             \* where the current run stands
    search_query,   \* fetch_news_data's argument
    lookup,         \* what Variable.get did in the current run (line 64)
    api_key,        \* line 333
    page,           \* fetch_news_from_api's page counter
    data,           \* the last response body received
    all_articles,   \* line 146
    total_results,  \* line 148
    http_log,       \* the page numbers requested by the current run
    api_response,   \* line 336
    articles,       \* line 337
    df,             \* the frame of process_articles_to_dataframe, then line 344
    processed,      \* the articles the normalizer's loop has gone through
    filename,       \* line 352
    local_file_path,\* line 355
    result,         \* what the run returned
    steps,          \* the steps the current run has attempted, in order
    failed          \* the step that raised, "none" when none did

env == <<now, ticks, runs, history, localFiles, bucket>>
fetchVars == <<page, data, all_articles, total_results, http_log, api_response>>
runVars == <<search_query, lookup, api_key, articles, df, processed, filename, local_file_path, result>>
vars == <<env, fetchVars, runVars, pc, steps, failed, dagVars>>

Init ==
    /\ now = StartClock
    /\ ticks = 0
    /\ runs = 0
    /\ history = {}
    /\ localFiles = {}
    /\ bucket = {}
    /\ pc = "idle"
    /\ search_query = ""
    /\ lookup = NoLookup
    /\ api_key = <<>>
    /\ page = 1
    /\ data = NoData
    /\ all_articles = <<>>
    /\ total_results = 0
    /\ http_log = <<>>
    /\ api_response = NoFinalData
    /\ articles = <<>>
    /\ df = <<>>
    /\ processed = 0
    /\ filename = ""
    /\ local_file_path = ""
    /\ result = Unset
    /\ steps = <<>>
    /\ failed = "none"
    /\ task_state = [t \in Tasks |-> "none"]
    /\ try_number = [t \in Tasks |-> 0]

\* the clock advances by one second
Tick ==
    /\ ticks < MaxTicks
    /\ ticks' = ticks + 1
    /\ now' = IF now.sec + 1 = SecondsPerDay
              THEN [day |-> now.day + 1, sec |-> 0]
              ELSE [now EXCEPT !.sec = now.sec + 1]
    /\ UNCHANGED <<runs, history, localFiles, bucket, fetchVars, runVars, pc, steps, failed>>
    /\ UNCHANGED dagVars

\* a call of fetch_news_data(search_query): a fresh frame (line 330)
StartRun(max_runs) ==
    /\ pc \in {"idle", "returned", "raised"}
    /\ runs < max_runs
    /\ \E q \in Queries : search_query' = q
    /\ runs' = runs + 1
    /\ pc' = "credential"
    /\ lookup' = NoLookup
    /\ api_key' = <<>>
    /\ page' = 1
    /\ data' = NoData
    /\ all_articles' = <<>>
    /\ total_results' = 0
    /\ http_log' = <<>>
    /\ api_response' = NoFinalData
    /\ articles' = <<>>
    /\ df' = <<>>
    /\ processed' = 0
    /\ filename' = ""
    /\ local_file_path' = ""
    /\ result' = Unset
    /\ steps' = <<>>
    /\ failed' = "none"
    /\ UNCHANGED <<now, ticks, history, localFiles, bucket>>
    /\ UNCHANGED dagVars

\* line 333
GetApiKey ==
    /\ pc = "credential"
    /\ steps' = Append(steps, "credential")
    /\ \E l \in Lookups :
        LET got == get_api_key_from_airflow(l)
        IN /\ lookup' = l
           /\ IF got.raises
              THEN /\ pc' = AfterRaise("credential")
                   /\ failed' = "credential"
                   /\ UNCHANGED api_key
              ELSE /\ pc' = "fetch"
                   /\ failed' = failed
                   /\ api_key' = got.key
    /\ UNCHANGED <<env, fetchVars, search_query, articles, df, processed, filename,
                   local_file_path, result>>
    /\ UNCHANGED dagVars

\* line 336: one pass of the while loop of fetch_news_from_api (lines 150-193)
\* and, when the loop is left, lines 203-211 and the driver's lines 337-341
FetchPage(responses) ==
    /\ pc = "fetch"
    /\ Len(http_log) < MaxRequests
    /\ steps' = IF page = 1 THEN Append(steps, "fetch") ELSE steps
    /\ http_log' = Append(http_log, page)
    /\ \E resp \in responses :
        /\ data' = resp
        /\ IF ResponseRaises(resp)
           THEN /\ pc' = AfterRaise("fetch")
                /\ failed' = "fetch"
                /\ UNCHANGED <<page, all_articles, total_results, api_response,
                               articles, result>>
           ELSE LET page_articles == resp.articles.v
                    all == all_articles \o page_articles
                    total == IF page_articles # <<>> /\ page = 1
                             THEN resp.totalResults.n ELSE total_results
                IN /\ all_articles' = all
                   /\ total_results' = total
                   /\ failed' = failed
                   /\ IF HaltsAfterPage(page_articles, Len(all), total)
                      THEN /\ api_response' = FinalData(all)
                           /\ articles' = all
                           /\ page' = page
                           /\ IF all = <<>>
                              THEN pc' = "returned" /\ result' = None
                              ELSE pc' = "normalize" /\ result' = result
                      ELSE /\ page' = page + 1
                           /\ pc' = "fetch"
                           /\ UNCHANGED <<api_response, articles, result>>
    /\ UNCHANGED <<env, search_query, lookup, api_key, df, processed, filename, local_file_path>>
    /\ UNCHANGED dagVars

\* line 344: one pass of the for loop of process_articles_to_dataframe (lines
\* 241-273) on the next article; fetch_news_from_api's frame is gone
NormalizeArticle ==
    /\ pc = "normalize"
    /\ processed < Len(articles)
    /\ steps' = IF processed = 0 THEN Append(steps, "normalize") ELSE steps
    /\ LET article == articles[processed + 1]
       IN IF ArticleRaises(article)
          THEN /\ processed' = OnArticleError(processed, Len(articles))
               /\ df' = df
          ELSE /\ processed' = processed + 1
               /\ df' = Append(df, NewRow(article))
    /\ data' = NoData
    /\ UNCHANGED <<env, page, all_articles, total_results, http_log, api_response,
                   search_query, lookup, api_key, articles, filename, local_file_path,
                   result, pc, failed>>
    /\ UNCHANGED dagVars

\* the loop is over: lines 275-276 return the frame, lines 346-348 check it
NormalizeDone ==
    /\ pc = "normalize"
    /\ processed >= Len(articles)
    /\ IF DfEmpty(df)
       THEN pc' = "returned" /\ result' = None
       ELSE pc' = "filename" /\ result' = result
    /\ UNCHANGED <<env, fetchVars, search_query, lookup, api_key, articles, df, processed,
                   filename, local_file_path, steps, failed>>
    /\ UNCHANGED dagVars

\* lines 351-352
ComputeFilename ==
    /\ pc = "filename"
    /\ filename' = Filename(search_query, now)
    /\ history' = history \cup
            {[run |-> runs, query |-> search_query, at |-> now, filename |-> filename']}
    /\ pc' = "write"
    /\ UNCHANGED <<now, ticks, runs, localFiles, bucket, fetchVars, search_query,
                   lookup, api_key, articles, df, processed, local_file_path, result, steps, failed>>
    /\ UNCHANGED dagVars

\* line 355, save_dataframe_to_parquet (lines 293-312): the file is written, or
\* to_parquet raises, or it returns and the file is not there (line 308)
Write ==
    /\ pc = "write"
    /\ steps' = Append(steps, "write")
    /\ \E outcome \in {"ok", "raise", "not_created"} :
        IF outcome = "ok"
        THEN /\ localFiles' = ToParquet(localFiles, filename, runs)
             /\ local_file_path' = filename
             /\ pc' = "upload"
             /\ failed' = failed
        ELSE /\ pc' = AfterRaise("write")
             /\ failed' = "write"
             /\ UNCHANGED <<localFiles, local_file_path>>
    /\ UNCHANGED <<now, ticks, runs, history, bucket, fetchVars, search_query,
                   lookup, api_key, articles, df, processed, filename, result>>
    /\ UNCHANGED dagVars

\* line 361, upload_to_gcs (lines 33-49): True, or the error re-raised
Upload ==
    /\ pc = "upload"
    /\ steps' = Append(steps, "upload")
    /\ \E outcome \in {"ok", "raise"} :
        IF outcome = "ok"
        THEN /\ bucket' = bucket \cup {DestinationBlobName(filename)}
             /\ pc' = "delete"
             /\ failed' = failed
        ELSE /\ pc' = AfterRaise("upload")
             /\ failed' = "upload"
             /\ UNCHANGED bucket
    /\ UNCHANGED <<now, ticks, runs, history, localFiles, fetchVars, runVars>>
    /\ UNCHANGED dagVars

\* lines 365-370: os.remove, then the URI is returned; os.remove can raise
\* (OSError), which leaves the file
Delete ==
    /\ pc = "delete"
    /\ steps' = Append(steps, "delete")
    /\ \E outcome \in {"ok", "raise"} :
        IF outcome = "ok"
        THEN /\ localFiles' = OsRemove(localFiles, local_file_path)
             /\ result' = GcsPath(BucketName, DestinationBlobName(filename))
             /\ pc' = "returned"
             /\ failed' = failed
        ELSE /\ pc' = AfterRaise("delete")
             /\ failed' = "delete"
             /\ UNCHANGED <<localFiles, result>>
    /\ UNCHANGED <<now, ticks, runs, history, bucket, fetchVars, search_query,
                   lookup, api_key, articles, df, processed, filename, local_file_path>>
    /\ UNCHANGED dagVars

\* one call of fetch_news_data, on every response of the search API
Next ==
    \/ Tick
    \/ StartRun(1)
    \/ GetApiKey
    \/ FetchPage(Responses)
    \/ NormalizeArticle
    \/ NormalizeDone
    \/ ComputeFilename
    \/ Write
    \/ Upload
    \/ Delete

Spec == Init /\ [][Next]_vars

\* the responses of the runs that follow one another: a failure, no article,
\* an article that does not normalize, one that does
FewResponses ==
    {[NoData EXCEPT !.kind = "network_error"]}
        \cup {[kind |-> "json", status |-> "ok", totalResults |-> IntVal(5),
               articles |-> List(p)] :
                p \in {<<>>, <<NotADict>>, <<Plain>>}}

\* up to MaxRuns calls of fetch_news_data, one after the other, on one disk,
\* one bucket and one clock
NextRuns ==
    \/ Tick
    \/ StartRun(MaxRuns)
    \/ GetApiKey
    \/ FetchPage(FewResponses)
    \/ NormalizeArticle
    \/ NormalizeDone
    \/ ComputeFilename
    \/ Write
    \/ Upload
    \/ Delete

SpecRuns == Init /\ [][NextRuns]_vars

\* fetch_news_data has returned or raised
RunEnded == pc \in {"returned", "raised"}

pipelineVars == <<env, fetchVars, runVars, pc, steps, failed>>

\* the scheduler starts a task: it has not run yet, or waits for its retry,
\* and its trigger rule is met
StartTask ==
    \E t \in Tasks :
        /\ task_state[t] \in {"none", "up_for_retry"}
        /\ UpstreamReady(task_state, t)
        /\ task_state' = [task_state EXCEPT ![t] = "running"]
        /\ try_number' = [try_number EXCEPT ![t] = @ + 1]
        /\ UNCHANGED pipelineVars

\* the scheduler gives up a task whose upstream failed
MarkUpstreamFailed ==
    \E t \in Tasks :
        /\ task_state[t] = "none"
        /\ UpstreamFailed(task_state, t)
        /\ task_state' = [task_state EXCEPT ![t] = "upstream_failed"]
        /\ UNCHANGED <<try_number, pipelineVars>>

\* lines 43-47: the running task newsapi_data_to_gcs calls fetch_news_data(),
\* once per try
CallFetchNewsData ==
    /\ task_state[FetchTask] = "running"
    /\ StartRun(try_number[FetchTask])

\* newsapi_data_to_gcs is over: fetch_news_data returned (a URI or None) and
\* the task succeeded, or it raised and the task failed
FinishFetchTask ==
    /\ task_state[FetchTask] = "running"
    /\ runs = try_number[FetchTask]
    /\ RunEnded
    /\ task_state' = [task_state EXCEPT ![FetchTask] =
            IF pc = "returned" THEN "success" ELSE AfterFailure(try_number[FetchTask])]
    /\ UNCHANGED <<try_number, pipelineVars>>

\* a SQLExecuteQueryOperator task is over: the statement ran, or it raised
FinishSqlTask ==
    \E t \in SqlTasks, ok \in BOOLEAN :
        /\ task_state[t] = "running"
        /\ task_state' = [task_state EXCEPT ![t] =
                IF ok THEN "success" ELSE AfterFailure(try_number[t])]
        /\ UNCHANGED <<try_number, pipelineVars>>

\* one run of the DAG
NextDag ==
    \/ Tick
    \/ StartTask
    \/ MarkUpstreamFailed
    \/ CallFetchNewsData
    \/ GetApiKey
    \/ FetchPage(FewResponses)
    \/ NormalizeArticle
    \/ NormalizeDone
    \/ ComputeFilename
    \/ Write
    \/ Upload
    \/ Delete
    \/ FinishFetchTask
    \/ FinishSqlTask

SpecDag == Init /\ [][NextDag]_vars

\* ====================================================================
\* Properties
\* ====================================================================
Range(q) == {q[i] : i \in 1..Len(q)}
IsPrefix(p, q) == Len(p) <= Len(q) /\ \A i \in 1..Len(p) : p[i] = q[i]
RunOver == pc \in {"returned", "raised"}

\* fetch_news_from_api returned an empty article list
FetchedNothing == api_response.status = "ok" /\ articles = <<>>
\* the normalizer went through a non-empty article list and kept no record
NormalizedNothing ==
    /\ "normalize" \in Range(steps)
    /\ processed >= Len(articles)
    /\ df = <<>>

\* C1: a run whose fetch returns zero articles, or whose normalization yields
\* zero records, does not raise, returns None, and performs no write, no
\* upload and no delete: disk and bucket are as the run found them.
C1_EmptyRunReturnsNone ==
    (FetchedNothing \/ NormalizedNothing) =>
        /\ pc \in {"normalize", "returned"}
        /\ (pc = "returned" => result = None)
        /\ (pc = "normalize" => result = Unset)
        /\ failed = "none"
        /\ Range(steps) \cap {"write", "upload", "delete"} = {}
        /\ filename = ""
        /\ localFiles = {}
        /\ bucket = {}

\* C1 witness: two articles were fetched, both raised in the normalizer, and
\* the run has returned None.
C1_Witness ==
    /\ NormalizedNothing
    /\ Len(articles) = 2
    /\ pc = "returned"
    /\ result = None

\* C2: a run that returns a URI returns gs://<bucket>/<prefix>/<filename>
\* for the filename it wrote locally and uploaded (news_data_<query>_
\* <timestamp>.parquet); the blob is in the bucket, the local file is gone.
C2_ReturnedUri ==
    (pc = "returned" /\ result # None) =>
        /\ result = "gs://snowflake-projects-test-gds/news_data_analysis/" \o filename
        /\ local_file_path = filename
        /\ \E h \in history :
            /\ h.run = runs
            /\ h.filename = filename
            /\ filename = "news_data_" \o search_query \o "_" \o StrFTime(h.at)
                              \o ".parquet"
        /\ ("news_data_analysis/" \o filename) \in bucket
        /\ \A f \in localFiles : f.name # filename
        /\ steps = <<"credential", "fetch", "normalize", "write", "upload", "delete">>
        /\ failed = "none"

\* C2 witness: the second run has returned a URI.
C2_Witness ==
    /\ pc = "returned"
    /\ result \notin {None, Unset}
    /\ runs = 2

IsBlankValue(val) ==
    \/ val.t \in {"absent", "null"}
    \/ (val.t = "str" /\ \A i \in 1..Len(val.v) : val.v[i] \in {" ", "\t", "\n"})

\* C3: when the lookup of NEWS_API_KEY raises, or the value is absent, empty
\* or whitespace-only, the run ends with the credential error and has sent no
\* HTTP request, written nothing and uploaded nothing.
C3_NoCredentialNoRequest ==
    ("credential" \in Range(steps) /\ (lookup.raises \/ IsBlankValue(lookup.value))) =>
        /\ pc = "raised"
        /\ failed = "credential"
        /\ result = Unset
        /\ http_log = <<>>
        /\ steps = <<"credential">>
        /\ localFiles = {}
        /\ bucket = {}

\* C3 witness: the stored key is whitespace-only and the run has raised.
C3_Witness ==
    /\ lookup.raises = FALSE
    /\ lookup.value.t = "str"
    /\ Len(lookup.value.v) > 0
    /\ IsBlankValue(lookup.value)
    /\ pc = "raised"

\* fetch_news_from_api was called and has returned or raised
FetchHalted == "fetch" \in Range(steps) /\ pc # "fetch"
PageOne == IF data.articles.t = "list" THEN data.articles.v ELSE <<>>

NormalizerDone == "normalize" \in Range(steps) /\ processed >= Len(articles)
Failing == {i \in 1..Len(articles) : ArticleRaises(articles[i])}

\* C5: of N articles of which K raise, the normalizer returns N-K records
\* without raising; the records are those of the articles that do not raise,
\* in the order of the articles.
C5_SkipsFailingArticles ==
    /\ failed # "normalize"
    /\ NormalizerDone =>
        LET failing == Failing
            surviving == (1..Len(articles)) \ failing
        IN /\ Len(df) = Len(articles) - Cardinality(failing)
           /\ \A i \in surviving :
                LET rank == Cardinality({k \in surviving : k <= i})
                IN rank <= Len(df) /\ df[rank] = NewRow(articles[i])

\* C5 witness: two articles, the first raised, the second is the one record.
C5_Witness ==
    /\ NormalizerDone
    /\ Len(articles) = 2
    /\ Failing = {1}
    /\ Len(df) = 1

\* C6 (as claimed): the content of every record has at most 200 characters.
C6_ContentBounded ==
    \A j \in 1..Len(df) : Len(df[j].content.v) <= 200

\* the other fields of the article are as in a well-formed article
OnlyTitleDiffers(article) == [article EXCEPT !.title = Plain.title] = Plain
TitleMissing == {i \in 1..Len(articles) :
                    /\ OnlyTitleDiffers(articles[i])
                    /\ articles[i].title.t \in {"absent", "null"}}

\* C8 (as claimed): an article whose title is missing or null, the rest being
\* well-formed, gets a record, with newsTitle "".
C8_MissingTitleKept ==
    (NormalizerDone /\ TitleMissing # {}) =>
        /\ Cardinality({j \in 1..Len(df) : df[j].newsTitle = Str(<<>>)})
                >= Cardinality(TitleMissing)

StepOrder == <<"credential", "fetch", "normalize", "write", "upload", "delete">>

\* C9: the steps of a run are attempted at most once each, in the order
\* credential, fetch, normalize, write, upload, delete; a step that raises is
\* the last one attempted, and the run then ends raising, with no result.
C9_ShortCircuit ==
    /\ IsPrefix(steps, StepOrder)
    /\ Len(http_log) <= 1
    /\ failed # "none" =>
        /\ pc = "raised"
        /\ steps # <<>>
        /\ steps[Len(steps)] = failed
        /\ result = Unset
    /\ pc = "raised" => failed # "none"
    /\ result # Unset => pc = "returned"

\* C9 witness: the upload raised after credential, fetch, normalize and write
\* succeeded; the run is over.
C9_Witness ==
    /\ failed = "upload"
    /\ pc = "raised"
    /\ steps = <<"credential", "fetch", "normalize", "write", "upload">>

\* C7 (as claimed): two distinct runs that compute a filename compute
\* different filenames.
C7_FilenameUniquePerRun ==
    \A h1, h2 \in history : h1.run # h2.run => h1.filename # h2.filename

\* C7 (amended): two runs compute the same filename exactly when they have
\* the same query and read the same second on the local clock.
C7_FilenameUniquePerSecond ==
    \A h1, h2 \in history :
        h1.filename = h2.filename <=> (h1.query = h2.query /\ h1.at = h2.at)

\* C7 witness: two runs with the same query, one second apart.
C7_Witness ==
    \E h1, h2 \in history :
        /\ h1.run # h2.run
        /\ h1.query = h2.query
        /\ h1.at.day = h2.at.day
        /\ h1.at.sec + 1 = h2.at.sec
        /\ h1.filename # h2.filename

\* the file this run wrote is on the disk
OwnFileExists == \E f \in localFiles : f.run = runs
WriteSucceeded == local_file_path # ""

\* C10 (as claimed): at the end of a run its file is still on the disk iff the
\* write succeeded and the upload raised.
C10_FileLeftIffUploadRaised ==
    RunOver => (OwnFileExists <=> (WriteSucceeded /\ failed = "upload"))

\* C10 (amended): at the end of a run its file is still on the disk iff the
\* write succeeded and the upload or the delete raised; a run whose upload
\* raised ends with an error and its file on the disk.
C10_FileLeftIffUploadOrDeleteRaised ==
    /\ RunOver => (OwnFileExists <=> (WriteSucceeded /\ failed \in {"upload", "delete"}))
    /\ failed = "upload" => (pc = "raised" /\ OwnFileExists)

\* C10 witness: the upload of the second run raised; its file is on the disk.
C10_Witness ==
    /\ pc = "raised"
    /\ failed = "upload"
    /\ runs = 2
    /\ OwnFileExists

HasStarted(t) == try_number[t] > 0
HasFailed(t) == task_state[t] \in {"failed", "upstream_failed"}

\* C11: in a run of the DAG a task starts only after its upstream task has
\* succeeded (create_table after newsapi_data_to_gcs, copy after create_table,
\* each summary task after copy); no task is started twice; and once a task has
\* failed none of the tasks downstream of it has started.
C11_TasksFollowUpstream ==
    /\ HasStarted("snowflake_create_table")
            => task_state["newsapi_data_to_gcs"] = "success"
    /\ HasStarted("snowflake_copy_from_stage")
            => task_state["snowflake_create_table"] = "success"
    /\ HasStarted("create_or_replace_news_summary_tb")
            => task_state["snowflake_copy_from_stage"] = "success"
    /\ HasStarted("create_or_replace_author_activity_tb")
            => task_state["snowflake_copy_from_stage"] = "success"
    /\ \A t \in Tasks : try_number[t] <= 1 /\ task_state[t] # "up_for_retry"
    /\ \A t \in Tasks : task_state[t] \in {"running", "success", "failed"} <=> HasStarted(t)
    /\ HasFailed("newsapi_data_to_gcs") =>
            \A t \in Tasks \ {"newsapi_data_to_gcs"} : ~HasStarted(t)
    /\ HasFailed("snowflake_create_table") =>
            \A t \in {"snowflake_copy_from_stage", "create_or_replace_news_summary_tb",
                      "create_or_replace_author_activity_tb"} : ~HasStarted(t)
    /\ HasFailed("snowflake_copy_from_stage") =>
            \A t \in {"create_or_replace_news_summary_tb",
                      "create_or_replace_author_activity_tb"} : ~HasStarted(t)

\* C11 witness: fetch_news_data returned, the three tasks before them have
\* succeeded, and the two summary tasks run at the same time.
C11_Witness ==
    /\ pc = "returned"
    /\ task_state["snowflake_copy_from_stage"] = "success"
    /\ task_state["create_or_replace_news_summary_tb"] = "running"
    /\ task_state["create_or_replace_author_activity_tb"] = "running"

====
